---------------------------- MODULE Spec2Model ----------------------------
(***************************************************************************)
(* A model of backend/server.py: the three MongoDB collections (breaches,  *)
(* monitored_domains, alerts), the HaveIBeenPwned call and the handlers    *)
(* get_domain_breaches, add_domain_monitor, search_email_breaches,         *)
(* comprehensive_scan and dismiss_alert.                                   *)
(*                                                                         *)
(* Text is a sequence of one-character strings, so that lower(), `in` and  *)
(* the $regex match are computed.  Breach names, dates and messages are    *)
(* only compared for equality and stay TLA+ strings.                       *)
(*                                                                         *)
(* The handlers are `async def` coroutines that never suspend (requests    *)
(* and pymongo block), run by one uvicorn event loop: a handler runs to    *)
(* its return before another starts.  pc names the running handler's       *)
(* position; every handler starts at "idle".                               *)
(***************************************************************************)
EXTENDS Integers, Sequences, FiniteSets, TLC

VARIABLES
    breaches,   \* breaches_collection: documents in insertion order
    domains,    \* domains_collection: documents in insertion order
    alerts,     \* alerts_collection: documents in insertion order
    now,        \* the value datetime.now() returns
    storeUp,    \* whether MongoDB answers; a store call raises when FALSE
    pc,         \* position of the running handler
    frame,      \* local variables of the running handler
    response,   \* what the last finished handler returned
    last,       \* the last finished handler call: its name, input, provider outcome
    lastUpsert  \* per breach name, the breach_data of the latest update_one

vars == <<breaches, domains, alerts, now, storeUp, pc, frame, response, last, lastUpsert>>

-----------------------------------------------------------------------------
(* Bounds of the model *)

\* datetime.now() takes the values 0..MaxClock
MaxClock == 1

\* a comprehensive scan starts only while the ledger, with one alert more for
\* each monitored domain, holds at most MaxAlerts alerts
MaxAlerts == 3

-----------------------------------------------------------------------------
(* Text *)

Lower(c) ==
    CASE c = "A" -> "a"
      [] c = "B" -> "b"
      [] c = "C" -> "c"
      [] c = "X" -> "x"
      [] OTHER -> c

\* str.lower()
LowerStr(s) == [i \in 1..Len(s) |-> Lower(s[i])]

\* Python's `needle in hay` on strings
Contains(needle, hay) ==
    \E i \in 0..(Len(hay) - Len(needle)) :
        \A j \in 1..Len(needle) : hay[i + j] = needle[j]

\* dict.get(key, default)
Get(d, key, default) == IF key \in DOMAIN d THEN d[key] ELSE default

\* the elements of s at the positions in keep, in the order of s: what a list
\* comprehension or a find() leaves of s
Keep(s, keep) ==
    LET F[i \in 0..Len(s)] ==
            IF i = 0 THEN <<>>
            ELSE IF i \in keep THEN Append(F[i - 1], s[i]) ELSE F[i - 1]
    IN  F[Len(s)]

\* list[:n]
Take(s, n) == SubSeq(s, 1, IF Len(s) < n THEN Len(s) ELSE n)

-----------------------------------------------------------------------------
(* The provider: GET {HIBP_API_BASE}/breaches *)

\* datetime.fromisoformat: the parsed date, or ok = FALSE where it raises ValueError
FromIsoFormat(s) ==
    CASE s = "2016-08-31" -> [ok |-> TRUE, value |-> <<2016, 8, 31>>]
      [] s = "2019-01-05" -> [ok |-> TRUE, value |-> <<2019, 1, 5>>]
      [] s = "2024-01-01" -> [ok |-> TRUE, value |-> <<2024, 1, 1>>]
      [] OTHER -> [ok |-> FALSE, value |-> <<0, 0, 0>>]

\* Catalogs the provider may answer with (response.json()).  A key a breach
\* lacks is a field the record lacks.
Cat1 == <<
    [Name |-> "N1", Domain |-> <<"A", "B">>, PwnCount |-> 7, BreachDate |-> "2016-08-31",
     DataClasses |-> <<"Email addresses", "Passwords">>, Description |-> "first",
     IsVerified |-> TRUE],
    [Name |-> "N2", Domain |-> <<"a", "b">>, PwnCount |-> 0],
    [Name |-> "N1", Domain |-> <<"x", "a", "b">>, PwnCount |-> 3, BreachDate |-> "2019-01-05",
     IsVerified |-> FALSE],
    [Name |-> "N2", Domain |-> <<"a", "b", ".", "x">>, BreachDate |-> "2016-08-31"],
    [Domain |-> <<"a", "B">>, Description |-> "unnamed"],
    [Name |-> "N3", Domain |-> <<"x", "A">>, PwnCount |-> 1, BreachDate |-> "2019-01-05"] >>

Cat2 == <<
    [Name |-> "N2", Domain |-> <<"a", "c">>, PwnCount |-> 0, BreachDate |-> "2016-08-31"],
    [Name |-> "N1", Domain |-> <<"C", "a">>, PwnCount |-> 4, BreachDate |-> "31/08/2016"],
    [Name |-> "N3", Domain |-> <<"c">>, PwnCount |-> 2] >>

Cat3 == <<
    [Name |-> "N3", Domain |-> <<"c", ".", "x">>, PwnCount |-> 5, BreachDate |-> "2016-08-31",
     IsVerified |-> TRUE],
    [Name |-> "N2", PwnCount |-> 9] >>

\* the program's constants: the alert threshold and the search's limit
SeverityThreshold == 5
SearchLimit == 20

\* a catalog of more breaches than one search returns, each with a name of its own
Cat4 ==
    [i \in 1..(SearchLimit + 1) |->
        [Name |-> ToString(i), Domain |-> <<"c", "c">>, PwnCount |-> i - 1,
         BreachDate |-> "2019-01-05"]]

Catalogs == <<Cat1, Cat2, Cat3, Cat4>>

\* What requests.get(...) can do: raise (timeout, connection error), or return
\* a response with a status code and, for 200, a catalog as its JSON body.
OutcomesWith(catalogs) ==
    {[raised |-> TRUE, status_code |-> 0, catalog |-> 0],
     [raised |-> FALSE, status_code |-> 429, catalog |-> 0]}
    \cup {[raised |-> FALSE, status_code |-> 200, catalog |-> k] : k \in catalogs}

\* every answer but the large catalog, which only SpecSearch draws
ProviderOutcomes == OutcomesWith(1..3)

NoOutcome == [raised |-> FALSE, status_code |-> 0, catalog |-> 0]

-----------------------------------------------------------------------------
(* The store *)

\* str(uuid.uuid4()).  The program only stores these identifiers and compares
\* them for equality, and the documents of a collection carry different ones:
\* the model names the identifier of the k-th document of a collection k.
Uuid4(coll, k) == IF k = 0 THEN Len(coll) + 1 ELSE k

\* the ObjectId insert_one gives a document (documents are never deleted)
ObjectId(coll) == Len(coll) + 1

\* the first of the positions a filter matches, 0 when it matches none
First(positions) ==
    IF positions = {} THEN 0
    ELSE CHOOSE i \in positions : \A j \in positions : i <= j

\* {"$set": fields} on one document
SetFields(doc, fields) ==
    [f \in DOMAIN doc \cup DOMAIN fields |-> IF f \in DOMAIN fields THEN fields[f] ELSE doc[f]]

\* index of the first breach document named name
FindBreach(coll, name) == First({i \in 1..Len(coll) : coll[i].breach_name = name})

\* the write as insert_one(breach_data): every write adds a document
UpdateOneInsert(coll, data) == Append(coll, data)

\* update_one({"breach_name": name}, {"$set": breach_data}, upsert=True)
UpdateOneUpsert(coll, data) ==
    LET k == FindBreach(coll, data.breach_name)
    IN  IF k = 0
        THEN Append(coll, data)
        ELSE [coll EXCEPT ![k] = SetFields(coll[k], data)]

\* the filter of line 130
DomainMatches(domain, breach) ==
    Contains(LowerStr(domain), LowerStr(Get(breach, "Domain", <<>>)))

\* whether line 141 gets a date out of the breach
DateParses(breach) == FromIsoFormat(Get(breach, "BreachDate", "2024-01-01")).ok

\* breach_data, lines 136-147, for a date that parses
BreachData(breach, id, clock) ==
    [id |-> id,
     breach_name |-> Get(breach, "Name", ""),
     domain |-> Get(breach, "Domain", <<>>),
     emails_compromised |-> Get(breach, "PwnCount", 0),
     breach_date |-> FromIsoFormat(Get(breach, "BreachDate", "2024-01-01")).value,
     data_classes |-> Get(breach, "DataClasses", <<>>),
     description |-> Get(breach, "Description", ""),
     verified |-> Get(breach, "IsVerified", FALSE),
     source |-> "HaveIBeenPwned",
     created_at |-> clock]

\* lastUpsert after an update_one of data
Record(written, data) ==
    [n \in DOMAIN written \cup {data.breach_name} |->
        IF n = data.breach_name THEN data ELSE written[n]]

\* str(e) of the exception a store call raises when MongoDB is unreachable
StoreError == "ServerSelectionTimeoutError"

\* one pass of the loop of lines 134-154, on breach: the collection and the
\* written breach_data it leaves, and the exception that left it ("" for none):
\* fromisoformat's ValueError, or update_one's with the store down
StoreOne(st, breach, clock, up) ==
    IF st.raised # "" THEN st
    ELSE IF ~DateParses(breach) THEN [st EXCEPT !.raised = "ValueError"]
    ELSE IF ~up THEN [st EXCEPT !.raised = StoreError]
    ELSE LET k == FindBreach(st.coll, Get(breach, "Name", ""))
             data == BreachData(breach, Uuid4(st.coll, k), clock)
         IN  [raised |-> "",
              coll |-> UpdateOneUpsert(st.coll, data),
              written |-> Record(st.written, data)]

\* the loop of lines 134-154: an exception ends it
StoreLoop(matches, coll, written, clock, up) ==
    LET S[i \in 0..Len(matches)] ==
            IF i = 0 THEN [raised |-> "", coll |-> coll, written |-> written]
            ELSE StoreOne(S[i - 1], matches[i], clock, up)
    IN  S[Len(matches)]

\* the catalog's breaches for a domain, lines 128-131
DomainBreaches(domain, all_breaches) ==
    Keep(all_breaches, {i \in 1..Len(all_breaches) : DomainMatches(domain, all_breaches[i])})

\* get_domain_breaches(domain), lines 117-161: what it returns, the collection
\* it leaves, and the exception its except clause caught ("" for none).  It
\* has no path that raises.
GetDomainBreaches(domain, outcome, coll, written, clock, up) ==
    IF outcome.raised
    THEN [result |-> [breaches |-> <<>>, count |-> 0, error |-> "ConnectionError"],
          coll |-> coll, written |-> written, caught |-> "ConnectionError"]
    ELSE IF outcome.status_code # 200
    THEN [result |-> [breaches |-> <<>>, count |-> 0, message |-> "API rate limit or error"],
          coll |-> coll, written |-> written, caught |-> ""]
    ELSE LET domain_breaches == DomainBreaches(domain, Catalogs[outcome.catalog])
             loop == StoreLoop(domain_breaches, coll, written, clock, up)
         IN  IF loop.raised = ""
             THEN [result |-> [breaches |-> domain_breaches, count |-> Len(domain_breaches)],
                   coll |-> loop.coll, written |-> loop.written, caught |-> ""]
             ELSE [result |-> [breaches |-> <<>>, count |-> 0, error |-> loop.raised],
                   coll |-> loop.coll, written |-> loop.written, caught |-> loop.raised]

\* a handler's return value as the HTTP layer sends it
Ok(body) == [http |-> 200, body |-> body]

\* an exception that leaves a handler: FastAPI answers 500
Fault == [http |-> 500, body |-> [detail |-> "Internal Server Error"]]

-----------------------------------------------------------------------------
(* Inputs *)

DA == <<"a">>
DB == <<"a", "b">>
DC == <<"c">>

\* the domains requests name
DomainInputs == {DA, DB, DC}

\* email_patterns of a registration
PatternInputs == {<<>>, <<"*@corp">>}

\* the addresses searched for
EmailInputs ==
    {<<"u", "@", "A", "b">>, <<"u", "@", "c", ".", "x">>, <<"u", "@", "x", "c">>,
     <<"u", "@", "C">>, <<"u">>, <<"u", "@", "b", "@", "c">>}

NoFrame == [domain |-> <<>>]

\* a finished call: the handler, its input, what the provider did in it (in a
\* comprehensive scan, per domain), and whether a store call raised in it
Called(op, arg, outcome, outcomes, failed) ==
    [op |-> op, arg |-> arg, outcome |-> outcome, outcomes |-> outcomes, failed |-> failed]

-----------------------------------------------------------------------------
(* Handlers *)

Init ==
    /\ breaches = <<>>
    /\ domains = <<>>
    /\ alerts = <<>>
    /\ now = 0
    /\ storeUp = TRUE
    /\ pc = "idle"
    /\ frame = NoFrame
    /\ response = Ok([message |-> "none"])
    /\ last = Called("none", <<>>, NoOutcome, <<>>, FALSE)
    /\ lastUpsert = <<>>

\* the handler without its try/except: an exception leaves it
ScanDomainNoCatch(domain, outcomes) ==
    /\ pc = "idle"
    /\ \E outcome \in outcomes :
         LET r == GetDomainBreaches(domain, outcome, breaches, lastUpsert, now, storeUp)
         IN  /\ breaches' = r.coll
             /\ lastUpsert' = r.written
             /\ response' = IF r.caught = "" THEN Ok(r.result) ELSE Fault
             /\ last' = Called("scan", domain, outcome, <<>>, r.caught = StoreError)
    /\ UNCHANGED <<domains, alerts, now, storeUp, pc, frame>>

\* GET /api/breaches/domain/{domain}, the provider answering one of outcomes
ScanDomainFrom(domain, outcomes) ==
    /\ pc = "idle"
    /\ \E outcome \in outcomes :
         LET r == GetDomainBreaches(domain, outcome, breaches, lastUpsert, now, storeUp)
         IN  /\ breaches' = r.coll
             /\ lastUpsert' = r.written
             /\ response' = Ok(r.result)
             /\ last' = Called("scan", domain, outcome, <<>>, r.caught = StoreError)
    /\ UNCHANGED <<domains, alerts, now, storeUp, pc, frame>>

ScanDomain(domain) == ScanDomainFrom(domain, ProviderOutcomes)

\* the registration without its check: find_one finds nothing
FindDomainNever(coll, domain) == 0

\* find_one({"domain": domain}): index of the first such document, 0 for None
FindDomain(coll, domain) == First({i \in 1..Len(coll) : coll[i].domain = domain})

\* domain_record, lines 166-172, with the _id insert_one adds
DomainRecord(coll, domain, email_patterns, clock) ==
    [_id |-> ObjectId(coll),
     id |-> Uuid4(coll, 0),
     domain |-> domain,
     email_patterns |-> email_patterns,
     created_at |-> clock,
     status |-> "active"]

\* the request body, a DomainMonitor (lines 27-30)
Body(domain, email_patterns) == [domain |-> domain, email_patterns |-> email_patterns]

\* POST /api/domains/monitor up to the awaited scan, lines 164-179
RegisterBegin(domain, email_patterns) ==
    /\ pc = "idle"
    /\ IF ~storeUp
       THEN /\ response' = Fault
            /\ last' = Called("register", Body(domain, email_patterns), NoOutcome, <<>>, TRUE)
            /\ UNCHANGED <<domains, pc, frame>>
       ELSE LET existing == FindDomain(domains, domain)
            IN  IF existing # 0
                THEN /\ response' = Ok([message |-> "Domain already being monitored",
                                        id |-> domains[existing]._id])
                     /\ last' = Called("register", Body(domain, email_patterns),
                                       NoOutcome, <<>>, FALSE)
                     /\ UNCHANGED <<domains, pc, frame>>
                ELSE /\ domains' = Append(domains,
                                          DomainRecord(domains, domain, email_patterns, now))
                     /\ pc' = "reg_scan"
                     /\ frame' = [domain |-> domain, email_patterns |-> email_patterns,
                                  inserted_id |-> ObjectId(domains),
                                  outcome |-> NoOutcome, failed |-> FALSE]
                     /\ UNCHANGED <<response, last>>
    /\ UNCHANGED <<breaches, alerts, now, storeUp, lastUpsert>>

\* the initial scan, lines 182-185: awaited, its result dropped
RegisterScanFrom(outcomes) ==
    /\ pc = "reg_scan"
    /\ \E outcome \in outcomes :
         LET r == GetDomainBreaches(frame.domain, outcome, breaches, lastUpsert, now, storeUp)
         IN  /\ breaches' = r.coll
             /\ lastUpsert' = r.written
             /\ frame' = [frame EXCEPT !.outcome = outcome,
                                       !.failed = (r.caught = StoreError)]
    /\ pc' = "reg_return"
    /\ UNCHANGED <<domains, alerts, now, storeUp, response, last>>

RegisterScan == RegisterScanFrom(ProviderOutcomes)

\* the return value with the scan's status in it
ActivatedWithScan(fr) ==
    [message |-> "Domain monitoring activated", id |-> fr.inserted_id,
     scan |-> fr.outcome.status_code]

\* what add_domain_monitor returns for a new domain, line 187
Activated(fr) == [message |-> "Domain monitoring activated", id |-> fr.inserted_id]

\* line 187
RegisterReturn ==
    /\ pc = "reg_return"
    /\ response' = Ok(Activated(frame))
    /\ last' = Called("register", Body(frame.domain, frame.email_patterns),
                      frame.outcome, <<>>, frame.failed)
    /\ pc' = "idle"
    /\ frame' = NoFrame
    /\ UNCHANGED <<breaches, domains, alerts, now, storeUp, lastUpsert>>

\* re.search with "i": the pattern's letters and its "." (any character)
RegexSearch(pattern, text) ==
    \E i \in 0..(Len(text) - Len(pattern)) :
        \A j \in 1..Len(pattern) :
            pattern[j] = "." \/ Lower(pattern[j]) = Lower(text[i + j])

\* email.split('@')[1] if '@' in email else ''
EmailDomain(email) ==
    LET ats == {i \in 1..Len(email) : email[i] = "@"}
    IN  IF ats = {} THEN <<>>
        ELSE LET first == CHOOSE i \in ats : \A j \in ats : i <= j
                 later == {i \in ats : i > first}
                 stop == IF later = {} THEN Len(email) + 1
                         ELSE CHOOSE i \in later : \A j \in later : i <= j
             IN  SubSeq(email, first + 1, stop - 1)

\* the query {}: every document
SearchAll(domain, doc) == TRUE

\* the query of lines 207-211
SearchQuery(domain, doc) ==
    RegexSearch(domain, doc.domain) \/ doc.emails_compromised > 0

\* find(query).limit(20)
FindLimit(coll, domain) ==
    Take(Keep(coll, {i \in 1..Len(coll) : SearchQuery(domain, coll[i])}), SearchLimit)

\* GET /api/search/email/{email}
SearchEmail(email) ==
    /\ pc = "idle"
    /\ response' =
         IF ~storeUp
         THEN Ok([error |-> StoreError, breaches |-> <<>>, breaches_found |-> 0])
         ELSE LET local_breaches == FindLimit(breaches, EmailDomain(email))
              IN  Ok([email |-> email, breaches_found |-> Len(local_breaches),
                      breaches |-> local_breaches, status |-> "scanned"])
    /\ last' = Called("search", email, NoOutcome, <<>>, ~storeUp)
    /\ UNCHANGED <<breaches, domains, alerts, now, storeUp, pc, frame, lastUpsert>>

\* the threshold taken as "at least"
SeverityAtLeast(count) == IF count >= SeverityThreshold THEN "high" ELSE "medium"

\* line 259
Severity(count) == IF count > SeverityThreshold THEN "high" ELSE "medium"

\* the alert of lines 254-263
Alert(coll, domain_name, count, clock) ==
    [id |-> Uuid4(coll, 0),
     domain |-> domain_name,
     breach_name |-> "Multiple breaches detected",
     severity |-> Severity(count),
     message |-> <<"Found", count, "breaches for", domain_name>>,
     created_at |-> clock,
     status |-> "active"]

\* POST /api/scan/comprehensive: line 238
CompBegin ==
    /\ pc = "idle"
    /\ Len(alerts) + Len(domains) <= MaxAlerts
    /\ IF ~storeUp
       THEN /\ response' = Ok([error |-> StoreError, message |-> "Scan failed"])
            /\ last' = Called("comprehensive", [domains |-> <<>>, alerts0 |-> Len(alerts)],
                              NoOutcome, <<>>, TRUE)
            /\ UNCHANGED <<pc, frame>>
       ELSE /\ pc' = "comp_scan"
            /\ frame' = [domains |-> domains, i |-> 1, scan_results |-> <<>>,
                         outcomes |-> <<>>, count |-> 0, alerts0 |-> Len(alerts),
                         failed |-> FALSE]
            /\ UNCHANGED <<response, last>>
    /\ UNCHANGED <<breaches, domains, alerts, now, storeUp, lastUpsert>>

\* one domain of the loop, lines 242-253
CompScanFrom(outcomes) ==
    /\ pc = "comp_scan"
    /\ frame.i <= Len(frame.domains)
    /\ \E outcome \in outcomes :
         LET domain_name == frame.domains[frame.i].domain
             r == GetDomainBreaches(domain_name, outcome, breaches, lastUpsert, now, storeUp)
             count == Get(r.result, "count", 0)
             entry == [domain |-> domain_name, breaches_found |-> count,
                       status |-> "success"]
         IN  /\ breaches' = r.coll
             /\ lastUpsert' = r.written
             /\ frame' = [frame EXCEPT !.scan_results = Append(@, entry),
                                       !.outcomes = Append(@, outcome),
                                       !.count = count,
                                       !.failed = @ \/ r.caught = StoreError,
                                       !.i = IF count > 0 THEN @ ELSE @ + 1]
             /\ pc' = IF count > 0 THEN "comp_alert" ELSE "comp_scan"
    /\ UNCHANGED <<domains, alerts, now, storeUp, response, last>>

CompScan == CompScanFrom(ProviderOutcomes)

\* lines 253-271 for a domain with breaches: the alert, or the handler of the
\* exception insert_one raises
CompAlert ==
    /\ pc = "comp_alert"
    /\ LET domain_name == frame.domains[frame.i].domain
       IN  IF storeUp
           THEN /\ alerts' = Append(alerts, Alert(alerts, domain_name, frame.count, now))
                /\ frame' = [frame EXCEPT !.i = @ + 1]
           ELSE /\ alerts' = alerts
                /\ frame' = [frame EXCEPT
                               !.scan_results =
                                   Append(@, [domain |-> domain_name, status |-> "error",
                                              error |-> StoreError]),
                               !.failed = TRUE,
                               !.i = @ + 1]
    /\ pc' = "comp_scan"
    /\ UNCHANGED <<breaches, domains, now, storeUp, response, last, lastUpsert>>

\* the report, lines 273-277
Report(scan_results) ==
    [message |-> "Comprehensive scan completed",
     scanned_domains |-> Len(scan_results),
     results |-> scan_results]

CompReturn ==
    /\ pc = "comp_scan"
    /\ frame.i > Len(frame.domains)
    /\ response' = Ok(Report(frame.scan_results))
    /\ last' = Called("comprehensive",
                      [domains |-> frame.domains, alerts0 |-> frame.alerts0],
                      NoOutcome, frame.outcomes, frame.failed)
    /\ pc' = "idle"
    /\ frame' = NoFrame
    /\ UNCHANGED <<breaches, domains, alerts, now, storeUp, lastUpsert>>

\* the alerts requests name: those of the ledger, and 0, which none carries
AlertIdInputs == 0..MaxAlerts

\* update_one({"id": alert_id}, {"$set": ...}) of lines 284-287: the collection
\* it leaves and its modified_count (0 when no document changed)
UpdateOneDismiss(coll, alert_id, clock) ==
    LET k == First({i \in 1..Len(coll) : coll[i].id = alert_id})
        doc == SetFields(coll[k], [status |-> "dismissed", dismissed_at |-> clock])
    IN  IF k = 0 THEN [coll |-> coll, modified_count |-> 0]
        ELSE [coll |-> [coll EXCEPT ![k] = doc],
              modified_count |-> IF doc = coll[k] THEN 0 ELSE 1]

\* DELETE /api/alerts/{alert_id}
DismissAlert(alert_id) ==
    /\ pc = "idle"
    /\ IF ~storeUp
       THEN /\ response' = Fault
            /\ alerts' = alerts
       ELSE LET result == UpdateOneDismiss(alerts, alert_id, now)
            IN  /\ alerts' = result.coll
                /\ response' = Ok([message |-> "Alert dismissed",
                                   modified |-> result.modified_count])
    /\ last' = Called("dismiss", alert_id, NoOutcome, <<>>, ~storeUp)
    /\ UNCHANGED <<breaches, domains, now, storeUp, pc, frame, lastUpsert>>

\* time passes
Tick ==
    /\ now < MaxClock
    /\ now' = now + 1
    /\ UNCHANGED <<breaches, domains, alerts, storeUp, pc, frame, response, last, lastUpsert>>

\* MongoDB becomes unreachable, or reachable again
StoreFlip ==
    /\ storeUp' = ~storeUp
    /\ UNCHANGED <<breaches, domains, alerts, now, pc, frame, response, last, lastUpsert>>

Next ==
    \/ \E d \in DomainInputs : ScanDomain(d)
    \/ \E d \in DomainInputs, p \in PatternInputs : RegisterBegin(d, p)
    \/ RegisterScan
    \/ RegisterReturn
    \/ \E e \in EmailInputs : SearchEmail(e)
    \/ CompBegin
    \/ CompScan
    \/ CompAlert
    \/ CompReturn
    \/ \E a \in AlertIdInputs : DismissAlert(a)
    \/ Tick
    \/ StoreFlip

\* the whole program, every input
Spec == Init /\ [][Next]_vars

-----------------------------------------------------------------------------
(* The specifications the properties are checked under: the program's       *)
(* handlers from Init, each with the inputs its properties are about.       *)

\* single scans
NextScan ==
    \/ \E d \in DomainInputs : ScanDomain(d)
    \/ Tick

SpecScan == Init /\ [][NextScan]_vars

\* scans, with the large catalog among the answers, and searches
WideOutcomes == OutcomesWith({3, 4})

NextSearch ==
    \/ \E d \in DomainInputs : ScanDomainFrom(d, WideOutcomes)
    \/ \E e \in EmailInputs : SearchEmail(e)
    \/ Tick

SpecSearch == Init /\ [][NextSearch]_vars

\* registrations
NextRegister ==
    \/ \E d \in DomainInputs, p \in PatternInputs : RegisterBegin(d, p)
    \/ RegisterScan
    \/ RegisterReturn
    \/ Tick

SpecRegister == Init /\ [][NextRegister]_vars

\* every handler that writes breaches: scans of two domains, one of them
\* monitored, with two catalogs
IngestDomains == {DA, DC}
IngestOutcomes == OutcomesWith({1, 2})

NextIngest ==
    \/ \E d \in IngestDomains : ScanDomainFrom(d, IngestOutcomes)
    \/ RegisterBegin(DA, <<>>)
    \/ RegisterScanFrom(IngestOutcomes)
    \/ RegisterReturn
    \/ CompBegin
    \/ CompScanFrom(IngestOutcomes)
    \/ CompAlert
    \/ CompReturn
    \/ Tick

SpecIngest == Init /\ [][NextIngest]_vars

\* comprehensive scans of up to three domains
BatchOutcomes == OutcomesWith({1, 3})

NextBatch ==
    \/ \E d \in DomainInputs : RegisterBegin(d, <<>>)
    \/ RegisterScanFrom(BatchOutcomes)
    \/ RegisterReturn
    \/ CompBegin
    \/ CompScanFrom(BatchOutcomes)
    \/ CompAlert
    \/ CompReturn

SpecBatch == Init /\ [][NextBatch]_vars

\* alerts raised and dismissed
AlertOutcomes == OutcomesWith({1})

NextAlerts ==
    \/ \E d \in IngestDomains : RegisterBegin(d, <<>>)
    \/ RegisterScanFrom(AlertOutcomes)
    \/ RegisterReturn
    \/ CompBegin
    \/ CompScanFrom(AlertOutcomes)
    \/ CompAlert
    \/ CompReturn
    \/ \E a \in AlertIdInputs : DismissAlert(a)
    \/ Tick

SpecAlerts == Init /\ [][NextAlerts]_vars

\* scans with a store that can fail
NextF ==
    \/ \E d \in IngestDomains : ScanDomainFrom(d, AlertOutcomes)
    \/ \E d \in IngestDomains : RegisterBegin(d, <<>>)
    \/ RegisterScanFrom(AlertOutcomes)
    \/ RegisterReturn
    \/ CompBegin
    \/ CompScanFrom(AlertOutcomes)
    \/ CompAlert
    \/ CompReturn
    \/ StoreFlip

SpecF == Init /\ [][NextF]_vars

-----------------------------------------------------------------------------
(* Properties *)

\* a step in which a handler that runs in one step (op) was called
Handled(op) ==
    /\ pc = "idle"
    /\ pc' = "idle"
    /\ now' = now
    /\ storeUp' = storeUp
    /\ last'.op = op

\* the provider did not answer 200
ProviderFailed(outcome) == outcome.raised \/ outcome.status_code # 200

\* C2: the repository holds one document per breach name, the documents are
\* those of the names ever written, and each is the breach_data of the latest
\* write of its name.
C2_OneRecordPerNameLatestValues ==
    /\ \A i, j \in 1..Len(breaches) :
         breaches[i].breach_name = breaches[j].breach_name => i = j
    /\ \A i \in 1..Len(breaches) :
         /\ breaches[i].breach_name \in DOMAIN lastUpsert
         /\ breaches[i] = lastUpsert[breaches[i].breach_name]
    /\ \A n \in DOMAIN lastUpsert : \E i \in 1..Len(breaches) : breaches[i].breach_name = n

\* C2's case: N2, written from the first catalog by the scan that wrote the
\* unnamed breach, carries the second catalog's values and a later time.
C2_Witness ==
    \E i, j \in 1..Len(breaches) :
        /\ breaches[i].breach_name = "N2"
        /\ breaches[i].domain = <<"a", "c">>
        /\ breaches[i].created_at = 1
        /\ breaches[j].breach_name = ""
        /\ breaches[j].created_at = 0

\* C6: a single scan whose provider call raised or answered another status
\* than 200 returns (HTTP 200) no breaches and count 0, with an error message
\* when the call raised, and leaves the repository as it was.
C6_ProviderFailureIsSoft ==
    [][(Handled("scan") /\ ProviderFailed(last'.outcome)) =>
          /\ response'.http = 200
          /\ response'.body.breaches = <<>>
          /\ response'.body.count = 0
          /\ last'.outcome.raised => "error" \in DOMAIN response'.body
          /\ breaches' = breaches]_vars

\* C6's case: the provider call of a scan raised, over a repository with documents.
C6_Witness ==
    /\ last.op = "scan"
    /\ last.outcome.raised
    /\ response.body.error = "ConnectionError"
    /\ Len(breaches) > 0

\* the date line 141 stores for a breach that has one, the fallback otherwise
FallbackDate == <<2024, 1, 1>>

\* C10 (as claimed): after a single scan the provider answered with 200, the
\* response carries every catalog entry whose domain contains the scanned
\* domain, with their number, and the repository holds a document named as
\* each of them, with the fallback date where the entry's date is absent or
\* does not parse.
C10_EveryMatchStoredAndReturned ==
    (last.op = "scan" /\ last.outcome.status_code = 200) =>
        LET catalog == Catalogs[last.outcome.catalog]
            hits == {i \in 1..Len(catalog) :
                        Contains(LowerStr(last.arg), LowerStr(Get(catalog[i], "Domain", <<>>)))}
        IN  /\ response.body.count = Cardinality(hits)
            /\ Len(response.body.breaches) = Cardinality(hits)
            /\ \A i \in hits :
                 \E k \in 1..Len(breaches) :
                     /\ breaches[k].breach_name = Get(catalog[i], "Name", "")
                     /\ ( /\ \A j \in hits :
                               j > i => Get(catalog[j], "Name", "") # breaches[k].breach_name
                          /\ ~DateParses(catalog[i]) \/ "BreachDate" \notin DOMAIN catalog[i] )
                        => breaches[k].breach_date = FallbackDate

\* the report of the last comprehensive scan, when it gave one
Reported == last.op = "comprehensive" /\ "results" \in DOMAIN response.body

\* the alerts the last comprehensive scan appended for a domain
AlertsFor(domain_name) ==
    {j \in (last.arg.alerts0 + 1)..Len(alerts) : alerts[j].domain = domain_name}

\* the number of a catalog's entries whose domain contains domain_name
MatchCount(domain_name, catalog) ==
    Cardinality({i \in 1..Len(catalog) :
                    Contains(LowerStr(domain_name), LowerStr(Get(catalog[i], "Domain", <<>>)))})

\* C1 (as claimed): a comprehensive scan of three domains in which the provider
\* call raised for the second only reports three entries, the second with
\* status error, the first and third with status success and their match
\* counts, and appends no alert for the second domain.
C1_PartialFailureIsolated ==
    ( /\ Reported
      /\ Len(last.outcomes) = 3
      /\ last.outcomes[2].raised
      /\ last.outcomes[1].status_code = 200
      /\ last.outcomes[3].status_code = 200 ) =>
        LET results == response.body.results
            monitored == last.arg.domains
        IN  /\ Len(results) = 3
            /\ results[2].status = "error"
            /\ \A k \in {1, 3} :
                 /\ results[k].status = "success"
                 /\ results[k].breaches_found =
                        MatchCount(monitored[k].domain, Catalogs[last.outcomes[k].catalog])
            /\ AlertsFor(monitored[2].domain) = {}

\* C3: for every domain of a finished comprehensive scan, with the match
\* count n its scan returned: no alert was appended for it when n = 0, and
\* when n >= 1 exactly one, active, "high" when n > 5 and "medium" otherwise.
C3_OneAlertPerDomainBySeverity ==
    (Reported /\ pc \notin {"comp_scan", "comp_alert"}) =>
        \A k \in 1..Len(response.body.results) :
            LET n == response.body.results[k].breaches_found
                mine == AlertsFor(response.body.results[k].domain)
            IN  /\ n = 0 => mine = {}
                /\ n >= 1 =>
                     /\ Cardinality(mine) = 1
                     /\ \A j \in mine :
                          /\ alerts[j].status = "active"
                          /\ n > 5 => alerts[j].severity = "high"
                          /\ n <= 5 => alerts[j].severity = "medium"

\* C3's case: one scan found 6, 5 and 0 breaches for its three domains and
\* appended two alerts.
C3_Witness ==
    /\ Reported
    /\ pc = "idle"
    /\ Len(response.body.results) = 3
    /\ \E i, j, k \in 1..3 :
         /\ response.body.results[i].breaches_found = 6
         /\ response.body.results[j].breaches_found = 5
         /\ response.body.results[k].breaches_found = 0
    /\ Len(alerts) = last.arg.alerts0 + 2

\* C4 (as claimed): a dismissal answers 200; for an id no alert carries, or
\* the id of an alert already dismissed, it reports modified 0 and leaves the
\* ledger as it was; for an active alert it reports modified 1.
C4_DismissIdempotent ==
    [][Handled("dismiss") =>
          LET active == \E k \in 1..Len(alerts) :
                            alerts[k].id = last'.arg /\ alerts[k].status = "active"
          IN  /\ response'.http = 200
              /\ ~active => (response'.body.modified = 0 /\ alerts' = alerts)
              /\ active => response'.body.modified = 1]_vars

\* C5: the watchlist never holds two documents of one domain; a registration
\* starts its scan only for a domain the watchlist did not hold; and one that
\* returns at once found the domain, answers "already being monitored" with
\* that document's _id, and leaves the watchlist and the repository as they were.
C5_RegisterIdempotent ==
    [][ /\ \A i, j \in 1..Len(domains') : domains'[i].domain = domains'[j].domain => i = j
        /\ (pc = "idle" /\ pc' = "reg_scan") =>
              /\ \A k \in 1..Len(domains) : domains[k].domain # frame'.domain
              /\ Len(domains') = Len(domains) + 1
        /\ Handled("register") =>
              /\ \E k \in 1..Len(domains) :
                   /\ domains[k].domain = last'.arg.domain
                   /\ response' = Ok([message |-> "Domain already being monitored",
                                      id |-> domains[k]._id])
              /\ domains' = domains
              /\ breaches' = breaches ]_vars

\* C5's case: a second registration of a monitored domain, with other email
\* patterns than the stored ones.
C5_Witness ==
    /\ last.op = "register"
    /\ pc = "idle"
    /\ response.body.message = "Domain already being monitored"
    /\ \E k \in 1..Len(domains) :
         /\ domains[k].domain = last.arg.domain
         /\ domains[k]._id = response.body.id
         /\ domains[k].email_patterns # last.arg.email_patterns

=============================================================================
